---- MODULE Spec2Model ----
(***************************************************************************)
(* Model of the Sniper Elite V2 auto splitter (src/lib.rs).                *)
(*                                                                         *)
(* The program is one sequential loop: attach to the game process, resolve *)
(* the seven addresses (Memory::init), then once per tick re-read the      *)
(* settings, refresh the seven watchers from the process memory and issue  *)
(* commands to the timer.  One action models one whole iteration of the   *)
(* inner loop (lines 54-99); what happened while the loop was suspended    *)
(* in next_tick() (the user acting on the timer, the game writing its      *)
(* memory, the settings being edited) is the input of that action.         *)
(*                                                                         *)
(* asr primitives (Watcher, Pair, ArrayCString, timer) are modelled by     *)
(* what they compute at the places lib.rs calls them.                      *)
(***************************************************************************)
EXTENDS Integers, Sequences, FiniteSets, TLC

VARIABLES
    pc,               \* position of main(): "attach", "init_base", "init_size", "loop"
    process_name,     \* name the process was attached under, None when detached
    main_module_base, \* local of Memory::init, None until read
    main_module_size, \* local of Memory::init, None until read
    addresses,        \* the Memory struct, None until Memory::init returned
    settings,         \* the Settings struct as of the last settings.update()
    watchers,         \* the Watchers struct of the session
    tick_rate,        \* the rate last handed to asr::set_tick_rate
    timer_state,      \* what timer::state() returns
    game_time_paused, \* the timer's game-time pause flag
    seen_state,       \* timer::state() as read at line 67 of the last tick
    cmds,             \* the commands the last tick issued, in order
    rate_cmds,        \* the set_tick_rate calls of the last tick, in order
    loading_evals,    \* the results of the last tick's is_loading calls, in order
    reads             \* the raw results of the last tick's seven reads

vars == <<pc, process_name, main_module_base, main_module_size, addresses, settings, watchers,
          tick_rate, timer_state, game_time_paused, seen_state, cmds,
          rate_cmds, loading_evals, reads>>

(***************************************************************************)
(* Option<T>, Result<T, E>                                                 *)
(***************************************************************************)
None == <<>>

Some(x) == <<x>>

is_some(o) == o # None

Ok(v) == [ok |-> TRUE, val |-> v]

Err == [ok |-> FALSE]

\* Result::unwrap_or_default / unwrap_or_else(|_| d)
unwrap_or(r, d) == IF r.ok THEN r.val ELSE d

(***************************************************************************)
(* ArrayCString<2>: two bytes, the text is what precedes the first NUL     *)
(***************************************************************************)
as_bytes(s) ==
    IF s[1] = 0 THEN <<>>
    ELSE IF s[2] = 0 THEN <<s[1]>>
    ELSE s

matches(s, text) == as_bytes(s) = text

is_empty(s) == as_bytes(s) = <<>>

\* PartialEq of ArrayCString compares the texts
str_eq(a, b) == matches(a, as_bytes(b))

ArrayCStringDefault == <<0, 0>>

\* the string literals of start() and split()
NU == <<110, 117>>

TU == <<84, 117>>

BR == <<66, 114>>

(***************************************************************************)
(* Pair<T> and Watcher<T>                                                  *)
(***************************************************************************)
Pair(o, c) == [old |-> o, current |-> c]

\* Watcher::update_infallible on a u8 watcher
update_infallible(w, value) ==
    IF is_some(w) THEN Some(Pair(w[1].current, value))
    ELSE Some(Pair(value, value))

changed(p) == p.old # p.current

changed_to(p, v) == changed(p) /\ p.current = v

changed_from_to(p, a, b) == changed(p) /\ p.old = a /\ p.current = b

\* Pair::changed on the level watcher (ArrayCString equality)
str_changed(p) == ~str_eq(p.old, p.current)

(***************************************************************************)
(* Settings, Watchers                                                      *)
(***************************************************************************)
SettingsDefault == [individual_level |-> FALSE, slow_pc_mode |-> FALSE]

WatchersDefault ==
    [slow_pc_mode |-> FALSE,
     start_byte   |-> None,
     load_byte    |-> None,
     splash_byte  |-> None,
     level        |-> None,
     bullet_cam   |-> None,
     objective    |-> None,
     mc           |-> None]

\* update_loop with unwrap_or_default on the load byte too
update_loop_zero_default(w, r) ==
    [w EXCEPT
        !.start_byte  = update_infallible(@, unwrap_or(r.start, 0)),
        !.load_byte   = update_infallible(@, unwrap_or(r.load, 0)),
        !.splash_byte = update_infallible(@, unwrap_or(r.splash, 1)),
        !.bullet_cam  = update_infallible(@, unwrap_or(r.bullet, 0)),
        !.objective   = update_infallible(@, unwrap_or(r.objective, 0)),
        !.mc          = update_infallible(@, unwrap_or(r.mc, 0)),
        !.level       = update_infallible(@, unwrap_or(r.level, ArrayCStringDefault))]

\* update_loop with Watcher::update(read.ok()) on the load byte: a failed read
\* empties the watcher
update_loop_fallible(w, r) ==
    [w EXCEPT
        !.start_byte  = update_infallible(@, unwrap_or(r.start, 0)),
        !.load_byte   = IF r.load.ok THEN update_infallible(@, r.load.val) ELSE None,
        !.splash_byte = update_infallible(@, unwrap_or(r.splash, 1)),
        !.bullet_cam  = update_infallible(@, unwrap_or(r.bullet, 0)),
        !.objective   = update_infallible(@, unwrap_or(r.objective, 0)),
        !.mc          = update_infallible(@, unwrap_or(r.mc, 0)),
        !.level       = update_infallible(@, unwrap_or(r.level, ArrayCStringDefault))]

\* update_loop: r holds the Result of each process.read
update_loop(w, r) ==
    [w EXCEPT
        !.start_byte  = update_infallible(@, unwrap_or(r.start, 0)),
        !.load_byte   = update_infallible(@, unwrap_or(r.load, 1)),
        !.splash_byte = update_infallible(@, unwrap_or(r.splash, 1)),
        !.bullet_cam  = update_infallible(@, unwrap_or(r.bullet, 0)),
        !.objective   = update_infallible(@, unwrap_or(r.objective, 0)),
        !.mc          = update_infallible(@, unwrap_or(r.mc, 0)),
        !.level       = update_infallible(@, unwrap_or(r.level, ArrayCStringDefault))]

(***************************************************************************)
(* The decision functions                                                  *)
(***************************************************************************)
\* start() testing the start byte's value instead of its change
start_on_value(w, s) ==
    IF s.individual_level
    THEN /\ is_some(w.splash_byte)
         /\ changed_from_to(w.splash_byte[1], 0, 1)
         /\ is_some(w.level)
         /\ ~matches(w.level[1].current, NU)
    ELSE /\ is_some(w.start_byte)
         /\ w.start_byte[1].current = 1

\* start() without the test of the level code
start_without_level(w, s) ==
    IF s.individual_level
    THEN /\ is_some(w.splash_byte)
         /\ changed_from_to(w.splash_byte[1], 0, 1)
    ELSE /\ is_some(w.start_byte)
         /\ changed_to(w.start_byte[1], 1)

start(w, s) ==
    IF s.individual_level
    THEN /\ is_some(w.splash_byte)
         /\ changed_from_to(w.splash_byte[1], 0, 1)
         /\ is_some(w.level)
         /\ ~matches(w.level[1].current, NU)
    ELSE /\ is_some(w.start_byte)
         /\ changed_to(w.start_byte[1], 1)

\* Option<bool>: the ? operators return None before the && of the right side
\* is reached only when the left side is true
is_loading(w) ==
    IF ~is_some(w.load_byte) THEN None
    ELSE IF w.load_byte[1].current # 1 THEN Some(FALSE)
    ELSE IF ~is_some(w.splash_byte) THEN None
    ELSE Some(w.splash_byte[1].current = 1)

\* split() without the test for "Tu"
split_without_tu(w, s) ==
    IF s.individual_level
    THEN /\ is_some(w.mc)
         /\ changed_to(w.mc[1], 1)
    ELSE \/ /\ is_some(w.level)
            /\ str_changed(w.level[1])
            /\ ~is_empty(w.level[1].current)
            /\ ~matches(w.level[1].current, NU)
         \/ /\ is_some(w.level)
            /\ matches(w.level[1].current, BR)
            /\ is_some(w.bullet_cam)
            /\ w.bullet_cam[1].current = 1
            /\ is_some(w.objective)
            /\ w.objective[1].current = 3

\* split() without the test of the objective
split_without_objective(w, s) ==
    IF s.individual_level
    THEN /\ is_some(w.mc)
         /\ changed_to(w.mc[1], 1)
    ELSE \/ /\ is_some(w.level)
            /\ str_changed(w.level[1])
            /\ ~is_empty(w.level[1].current)
            /\ ~matches(w.level[1].current, NU)
            /\ ~matches(w.level[1].current, TU)
         \/ /\ is_some(w.level)
            /\ matches(w.level[1].current, BR)
            /\ is_some(w.bullet_cam)
            /\ w.bullet_cam[1].current = 1

\* split() applying the full-game conditions in individual-level mode too
split_in_both_modes(w, s) ==
    \/ /\ is_some(w.mc)
       /\ changed_to(w.mc[1], 1)
    \/ /\ is_some(w.level)
       /\ str_changed(w.level[1])
       /\ ~is_empty(w.level[1].current)
       /\ ~matches(w.level[1].current, NU)
       /\ ~matches(w.level[1].current, TU)
    \/ /\ is_some(w.level)
       /\ matches(w.level[1].current, BR)
       /\ is_some(w.bullet_cam)
       /\ w.bullet_cam[1].current = 1
       /\ is_some(w.objective)
       /\ w.objective[1].current = 3

split(w, s) ==
    IF s.individual_level
    THEN /\ is_some(w.mc)
         /\ changed_to(w.mc[1], 1)
    ELSE \/ /\ is_some(w.level)
            /\ str_changed(w.level[1])
            /\ ~is_empty(w.level[1].current)
            /\ ~matches(w.level[1].current, NU)
            /\ ~matches(w.level[1].current, TU)
         \/ /\ is_some(w.level)
            /\ matches(w.level[1].current, BR)
            /\ is_some(w.bullet_cam)
            /\ w.bullet_cam[1].current = 1
            /\ is_some(w.objective)
            /\ w.objective[1].current = 3

\* game_time() returning a time
game_time_zero(w, s, a) == Some(0)

game_time(w, s, a) == None

\* reset() with a condition: the start byte changed
reset_on_start_change(w, s) == is_some(w.start_byte) /\ changed(w.start_byte[1])

reset(w, s) == FALSE

(***************************************************************************)
(* Memory::init                                                            *)
(***************************************************************************)
PROCESS_NAMES == <<"SniperEliteV2.exe", "SEV2_Remastered.exe">>

\* find_map over PROCESS_NAMES: the first name that attaches
first_attached(running) ==
    IF PROCESS_NAMES[1] \in running THEN PROCESS_NAMES[1] ELSE PROCESS_NAMES[2]

\* Memory::init taking every image of at least 0x1154000 bytes for the remaster
Memory_init_at_least(base, size) ==
    IF size >= 18169856
    THEN [start     |-> base + 7969399,
          load      |-> base + 7819235,
          splash    |-> base + 7652976,
          level     |-> base + 8191101,
          bullet    |-> base + 7789847,
          objective |-> base + 8189288,
          mc        |-> base + 7969379]
    ELSE [start     |-> base + 6856674,
          load      |-> base + 6814776,
          splash    |-> base + 6634304,
          level     |-> base + 6840113,
          bullet    |-> base + 6666519,
          objective |-> base + 6647612,
          mc        |-> base + 6856658]

\* the match on main_module_size (0x1154000 = 18169856)
Memory_init(base, size) ==
    IF size = 18169856
    THEN [start     |-> base + 7969399,    \* 0x799A77
          load      |-> base + 7819235,    \* 0x774FE3
          splash    |-> base + 7652976,    \* 0x74C670
          level     |-> base + 8191101,    \* 0x7CFC7D
          bullet    |-> base + 7789847,    \* 0x76DD17
          objective |-> base + 8189288,    \* 0x7CF568
          mc        |-> base + 7969379]    \* 0x799A63
    ELSE [start     |-> base + 6856674,    \* 0x689FE2
          load      |-> base + 6814776,    \* 0x67FC38
          splash    |-> base + 6634304,    \* 0x653B40
          level     |-> base + 6840113,    \* 0x685F31
          bullet    |-> base + 6666519,    \* 0x65B917
          objective |-> base + 6647612,    \* 0x656F3C
          mc        |-> base + 6856658]    \* 0x689FD2

(***************************************************************************)
(* The timer the commands go to.  t = [state, paused].  A split of the     *)
(* last segment ends the run; the program does not know which segment is   *)
(* the last, so `last` is an input.                                        *)
(***************************************************************************)
TimerStates == {"NotRunning", "Running", "Paused", "Ended"}

timer_cmd(t, c, last) ==
    CASE c = "start" ->
            IF t.state = "NotRunning"
            THEN [state |-> "Running", paused |-> FALSE] ELSE t
      [] c = "split" ->
            IF t.state = "Running" /\ last
            THEN [t EXCEPT !.state = "Ended"] ELSE t
      [] c = "reset" ->
            IF t.state # "NotRunning"
            THEN [state |-> "NotRunning", paused |-> FALSE] ELSE t
      [] c = "pause_game_time"  -> [t EXCEPT !.paused = TRUE]
      [] c = "resume_game_time" -> [t EXCEPT !.paused = FALSE]
      [] OTHER -> t

RECURSIVE timer_run(_, _, _)
timer_run(t, cs, last) ==
    IF cs = <<>> THEN t
    ELSE timer_run(timer_cmd(t, Head(cs), last), Tail(cs), last)

\* what the user may have done to the timer while the loop was suspended
HostEvents(t) ==
    {"none"}
    \cup (IF t.state = "NotRunning" THEN {"start"} ELSE {"reset"})
    \cup (IF t.state = "Running" THEN {"pause"} ELSE {})
    \cup (IF t.state = "Paused" THEN {"resume"} ELSE {})

host_event(t, ev) ==
    CASE ev = "start"  -> [state |-> "Running", paused |-> FALSE]
      [] ev = "reset"  -> [state |-> "NotRunning", paused |-> FALSE]
      [] ev = "pause"  -> [t EXCEPT !.state = "Paused"]
      [] ev = "resume" -> [t EXCEPT !.state = "Running"]
      [] OTHER -> t

(***************************************************************************)
(* The body of the inner loop                                              *)
(***************************************************************************)
\* lines 56-63: the set_tick_rate calls
tick_rate_cmds(w, s) ==
    IF w.slow_pc_mode # s.slow_pc_mode
    THEN <<IF s.slow_pc_mode THEN 60 ELSE 120>>
    ELSE <<>>

\* the match on is_loading (lines 68-72 and 92-96)
load_cmds(l) ==
    IF l = Some(TRUE) THEN <<"pause_game_time">>
    ELSE IF l = Some(FALSE) THEN <<"resume_game_time">>
    ELSE <<>>

\* lines 74-77
game_time_cmds(g) == IF is_some(g) THEN <<"set_game_time">> ELSE <<>>

\* lines 79-85
reset_split_cmds(w, s) ==
    IF reset(w, s) THEN <<"reset">>
    ELSE IF split(w, s) THEN <<"split">>
    ELSE <<>>

\* line 67 with the test widened to every state but NotRunning
timer_active_unless_not_running(st) == st # "NotRunning"

\* line 67: [TimerState::Running, TimerState::Paused].contains(&timer::state())
timer_active(st) == st \in {"Running", "Paused"}

\* lines 67-86: the commands issued when timer::state() is Running or Paused
running_block(w, s, a) ==
    load_cmds(is_loading(w)) \o game_time_cmds(game_time(w, s, a))
        \o reset_split_cmds(w, s)

\* the start block without the second is_loading
start_block_without_recheck(w, s) == <<"start", "pause_game_time">>

\* the start block without the unconditional pause_game_time
start_block_without_pause(w, s) == <<"start">> \o load_cmds(is_loading(w))

\* lines 88-97: the commands issued when the run is started
start_block(w, s) ==
    <<"start", "pause_game_time">> \o load_cmds(is_loading(w))

NoReads == None

Tick(SettingsDom, ReadsDom) ==
    /\ pc = "loop"
    /\ \E s \in SettingsDom, r \in ReadsDom :
       \E ev \in HostEvents([state |-> timer_state, paused |-> game_time_paused]) :
         LET rc == tick_rate_cmds(watchers, s)
             w1 == [watchers EXCEPT !.slow_pc_mode = s.slow_pc_mode]
             w2 == update_loop(w1, r)
             t0 == host_event([state |-> timer_state, paused |-> game_time_paused], ev)
             b1 == IF timer_active(t0.state)
                   THEN running_block(w2, s, addresses) ELSE <<>>
         IN \E last \in (IF t0.state = "Running" /\ \E i \in 1..Len(b1) : b1[i] = "split"
                         THEN BOOLEAN ELSE {FALSE}) :
              LET t1 == timer_run(t0, b1, last)
                  b2 == IF t1.state = "NotRunning" /\ start(w2, s)
                        THEN start_block(w2, s) ELSE <<>>
                  t2 == timer_run(t1, b2, last)
              IN /\ settings' = s
                 /\ watchers' = w2
                 /\ tick_rate' = IF rc = <<>> THEN tick_rate ELSE rc[Len(rc)]
                 /\ rate_cmds' = rc
                 /\ reads' = Some(r)
                 /\ seen_state' = t0.state
                 /\ cmds' = b1 \o b2
                 /\ loading_evals' =
                        (IF timer_active(t0.state)
                         THEN <<is_loading(w2)>> ELSE <<>>)
                        \o (IF b2 # <<>> THEN <<is_loading(w2)>> ELSE <<>>)
                 /\ timer_state' = t2.state
                 /\ game_time_paused' = t2.paused
    /\ UNCHANGED <<pc, process_name, main_module_base, main_module_size, addresses>>

(***************************************************************************)
(* The outer loop                                                          *)
(***************************************************************************)
\* lines 32-42: retry until one of the names attaches; Watchers::default()
Attach(Running) ==
    /\ pc = "attach"
    /\ \E running \in (SUBSET Running) \ {{}} :
         process_name' = Some(first_attached(running))
    /\ watchers' = WatchersDefault
    /\ pc' = "init_base"
    /\ UNCHANGED <<main_module_base, main_module_size, addresses, settings, tick_rate,
                   timer_state,
                   game_time_paused, seen_state, cmds, rate_cmds, loading_evals, reads>>

\* line 128: retry until get_module_address succeeds
InitBase(Bases) ==
    /\ pc = "init_base"
    /\ \E b \in Bases : main_module_base' = Some(b)
    /\ pc' = "init_size"
    /\ UNCHANGED <<process_name, main_module_size, addresses, settings, watchers,
                   tick_rate, timer_state,
                   game_time_paused, seen_state, cmds, rate_cmds, loading_evals, reads>>

\* lines 129-155: retry until read_size_of_image succeeds, then build Memory
InitSize(Sizes) ==
    /\ pc = "init_size"
    /\ \E size \in Sizes :
         /\ main_module_size' = Some(size)
         /\ addresses' = Some(Memory_init(main_module_base[1], size))
    /\ pc' = "loop"
    /\ UNCHANGED <<process_name, main_module_base, settings, watchers, tick_rate,
                   timer_state, game_time_paused, seen_state, cmds, rate_cmds, loading_evals, reads>>

\* the process exits and the Memory struct outlives the session
ProcessExit_keeps_addresses ==
    /\ pc # "attach"
    /\ pc' = "attach"
    /\ process_name' = None
    /\ main_module_base' = None
    /\ main_module_size' = None
    /\ watchers' = None
    /\ seen_state' = "none"
    /\ cmds' = <<>>
    /\ rate_cmds' = <<>>
    /\ loading_evals' = <<>>
    /\ reads' = NoReads
    /\ UNCHANGED <<addresses, settings, tick_rate, timer_state, game_time_paused>>

\* until_closes: the process exits, the session's locals are dropped
ProcessExit ==
    /\ pc # "attach"
    /\ pc' = "attach"
    /\ process_name' = None
    /\ main_module_base' = None
    /\ main_module_size' = None
    /\ addresses' = None
    /\ watchers' = None
    /\ seen_state' = "none"
    /\ cmds' = <<>>
    /\ rate_cmds' = <<>>
    /\ loading_evals' = <<>>
    /\ reads' = NoReads
    /\ UNCHANGED <<settings, tick_rate, timer_state, game_time_paused>>

Init ==
    /\ pc = "attach"
    /\ process_name = None
    /\ main_module_base = None
    /\ main_module_size = None
    /\ addresses = None
    /\ settings = SettingsDefault
    /\ watchers = None
    /\ tick_rate = 120
    /\ timer_state = "NotRunning"
    /\ game_time_paused = FALSE
    /\ seen_state = "none"
    /\ cmds = <<>>
    /\ rate_cmds = <<>>
    /\ loading_evals = <<>>
    /\ reads = NoReads

(***************************************************************************)
(* Inputs.  A specification draws the settings and the seven read results  *)
(* of a tick from the sets below.  The product of all seven cells over     *)
(* all their values is out of reach, so each specification lets the cells  *)
(* its claims are about vary and holds the others at one value.            *)
(***************************************************************************)
MaxStartByte == 2

MaxMc == 2

L1 == <<76, 49>>

OkSet(S) == {Ok(v) : v \in S}

ReadsOf(S, L, P, V, B, O, M) ==
    [start : S, load : L, splash : P, level : V, bullet : B, objective : O, mc : M]

AllErr ==
    [start |-> Err, load |-> Err, splash |-> Err, level |-> Err, bullet |-> Err,
     objective |-> Err, mc |-> Err]

\* one process, one image
OneName == {PROCESS_NAMES[1]}

OneBase == {4194304}

OneSize == {18169856}

FullGame == {[individual_level |-> FALSE, slow_pc_mode |-> FALSE]}

IndividualLevel == {[individual_level |-> TRUE, slow_pc_mode |-> FALSE]}

BothModes == {[individual_level |-> il, slow_pc_mode |-> FALSE] : il \in BOOLEAN}

\* the level code, the bullet camera and the objective vary; the level may
\* read as an empty text followed by a stale byte, and its read may fail
SplitReads ==
    ReadsOf({Ok(0)}, {Ok(1)}, {Ok(0)},
            OkSet({NU, L1, TU, BR, <<0, 117>>}) \cup {Err},
            OkSet({0, 1}), OkSet({0, 3}), {Ok(0)})

\* the start byte, the load byte and the splash byte vary; a read of the load
\* byte or of the splash byte may fail
StartReads ==
    ReadsOf(OkSet(0..MaxStartByte), OkSet({0, 1}) \cup {Err}, OkSet({0, 1}) \cup {Err},
            {Ok(L1)}, {Ok(0)}, {Ok(0)}, {Ok(0)})

\* the splash byte, the level code and the main-character byte vary and a
\* read of the splash byte may fail, with the bullet camera and the objective
\* at the values of the Br condition
IndividualLevelReads ==
    ReadsOf({Ok(0)}, {Ok(1)}, OkSet({0, 1}) \cup {Err},
            OkSet({NU, L1, BR}),
            {Ok(1)}, {Ok(3)}, OkSet(0..MaxMc))

\* whole-memory images in which the start, split and loading conditions of
\* both modes can hold together, and the image of a tick whose reads all fail
SceneReads ==
    ReadsOf(OkSet({0, 1}), {Ok(1)}, OkSet({0, 1}),
            OkSet({NU, BR}),
            {Ok(1)}, {Ok(3)}, OkSet({0, 1}))
    \cup {AllErr}

Session(SettingsDom, ReadsDom) ==
    \/ Attach(OneName)
    \/ InitBase(OneBase)
    \/ InitSize(OneSize)
    \/ Tick(SettingsDom, ReadsDom)
    \/ ProcessExit

NextSplit == Session(FullGame, SplitReads)

SpecSplit == Init /\ [][NextSplit]_vars

NextStart == Session(FullGame, StartReads)

SpecStart == Init /\ [][NextStart]_vars

NextIL == Session(IndividualLevel, IndividualLevelReads)

SpecIL == Init /\ [][NextIL]_vars

NextScenes == Session(BothModes, SceneReads)

SpecScenes == Init /\ [][NextScenes]_vars

\* sessions: either executable, two bases, the remaster's image size and a
\* smaller and a larger one, slow_pc_mode switched at will, the start byte
\* varying
BothNames == {PROCESS_NAMES[1], PROCESS_NAMES[2]}

SessionBases == {4194304, 5242880}

SessionSizes == {18169856, 18173952, 13631488}

SlowOrFast == {[individual_level |-> FALSE, slow_pc_mode |-> slow] : slow \in BOOLEAN}

SessionReads ==
    ReadsOf(OkSet({0, 1}), {Ok(1)}, {Ok(1)}, {Ok(L1)}, {Ok(0)}, {Ok(0)}, {Ok(0)})

NextSession ==
    \/ Attach(BothNames)
    \/ InitBase(SessionBases)
    \/ InitSize(SessionSizes)
    \/ Tick(SlowOrFast, SessionReads)
    \/ ProcessExit

SpecSession == Init /\ [][NextSession]_vars

(***************************************************************************)
(* What the properties observe                                             *)
(***************************************************************************)
\* a tick of the current session has completed
Ticked == pc = "loop" /\ reads # NoReads

Count(cs, c) == Cardinality({i \in 1..Len(cs) : cs[i] = c})

Issued(c) == Count(cmds, c) > 0

IsLoadCmd(c) == c \in {"pause_game_time", "resume_game_time"}

LoadCmds == SelectSeq(cmds, IsLoadCmd)

SeenActive == seen_state \in {"Running", "Paused"}

\* a read result that update_loop turns into the sample 1 for the load byte
\* and the splash byte
ReadsAsOne(r) == r = Ok(1) \/ r = Err

SampledLoading == ReadsAsOne(reads[1].load) /\ ReadsAsOne(reads[1].splash)

(***************************************************************************)
(* C1: in full-game mode with the timer Running or Paused, the tick that   *)
(* samples the level going from "nu" to "L1" issues exactly one split, a   *)
(* following tick that samples "L1" again issues none, and a tick that     *)
(* samples the level going from "L1" to "Tu" issues none.                  *)
(***************************************************************************)
C1_LevelTransitionSplits ==
    (Ticked /\ ~settings.individual_level /\ SeenActive) =>
        LET p == watchers.level[1]
        IN /\ (p.old = NU /\ reads[1].level = Ok(L1)) => Count(cmds, "split") = 1
           /\ (p.old = L1 /\ reads[1].level = Ok(L1)) => Count(cmds, "split") = 0
           /\ (p.old = L1 /\ reads[1].level = Ok(TU)) => Count(cmds, "split") = 0

C1_Witness ==
    /\ Ticked /\ ~settings.individual_level /\ seen_state = "Paused"
    /\ watchers.level[1].old = NU /\ reads[1].level = Ok(L1)
    /\ cmds = <<"pause_game_time", "split">> \/ cmds = <<"resume_game_time", "split">>

(***************************************************************************)
(* C2: in full-game mode with the timer Running or Paused, a tick on which *)
(* the level code did not change issues a split if and only if the level   *)
(* read is "Br", the bullet camera read is 1 and the objective read is 3.  *)
(***************************************************************************)
C2_CompoundSplit ==
    (Ticked /\ ~settings.individual_level /\ SeenActive
        /\ ~str_changed(watchers.level[1])) =>
        (Issued("split") <=>
            /\ reads[1].level = Ok(BR)
            /\ reads[1].bullet = Ok(1)
            /\ reads[1].objective = Ok(3))

C2_Witness ==
    /\ Ticked /\ ~settings.individual_level /\ SeenActive
    /\ watchers.level[1] = Pair(BR, BR)
    /\ reads[1].bullet = Ok(1) /\ reads[1].objective = Ok(3)
    /\ watchers.objective[1].old = 0
    /\ Issued("split")

(***************************************************************************)
(* C3: in full-game mode a tick issues start if and only if the timer is   *)
(* NotRunning and the start byte reads 1 after a previous sample other     *)
(* than 1; a tick that finds the timer Running or Paused issues no start.  *)
(***************************************************************************)
C3_FullGameStart ==
    (Ticked /\ ~settings.individual_level) =>
        /\ Issued("start") <=>
              /\ seen_state = "NotRunning"
              /\ reads[1].start = Ok(1)
              /\ watchers.start_byte[1].old # 1
        /\ SeenActive => ~Issued("start")

C3_Witness ==
    /\ Ticked /\ ~settings.individual_level
    /\ seen_state = "NotRunning"
    /\ reads[1].start = Ok(1) /\ watchers.start_byte[1].old = 2
    /\ Issued("start") /\ timer_state = "Running"

(***************************************************************************)
(* C4: in individual-level mode start is true, and a start is issued, only *)
(* on a tick where the splash byte's previous sample is 0, its current     *)
(* sample is 1 and the current level code is not "nu".                     *)
(***************************************************************************)
C4_IndividualLevelStart ==
    (Ticked /\ settings.individual_level) =>
        ((start(watchers, settings) \/ Issued("start")) =>
            /\ watchers.splash_byte[1].old = 0
            /\ ReadsAsOne(reads[1].splash)
            /\ reads[1].level # Ok(NU))

C4_Witness ==
    /\ Ticked /\ settings.individual_level
    /\ watchers.splash_byte[1] = Pair(0, 1)
    /\ reads[1].level = Ok(L1)
    /\ Issued("start")

(***************************************************************************)
(* C5: in individual-level mode with the timer Running or Paused, a tick   *)
(* issues a split if and only if the main-character byte reads 1 after a   *)
(* previous sample other than 1, whatever the level code, the bullet       *)
(* camera and the objective do.                                            *)
(***************************************************************************)
C5_IndividualLevelSplit ==
    (Ticked /\ settings.individual_level /\ SeenActive) =>
        (Issued("split") <=>
            /\ reads[1].mc = Ok(1)
            /\ watchers.mc[1].old # 1)

C5_Witness ==
    /\ Ticked /\ settings.individual_level /\ SeenActive
    /\ reads[1].mc = Ok(1) /\ watchers.mc[1].old = 2
    /\ watchers.level[1] = Pair(BR, BR)
    /\ Issued("split")

(***************************************************************************)
(* C6: a tick that finds the timer Running or Paused issues exactly one    *)
(* load-state command: pause_game_time if the load byte and the splash     *)
(* byte both read 1 or failed to read, resume_game_time otherwise.         *)
(***************************************************************************)
C6_LoadCommand ==
    (Ticked /\ SeenActive) =>
        LoadCmds = <<IF SampledLoading THEN "pause_game_time" ELSE "resume_game_time">>

C6_Witness ==
    /\ Ticked /\ seen_state = "Running"
    /\ reads[1].load = Err /\ reads[1].splash = Ok(1)
    /\ cmds = <<"pause_game_time">>
    /\ game_time_paused

(***************************************************************************)
(* C7: a tick that issues start issues start, pause_game_time and then the *)
(* load-state command of is_loading on that tick's samples, in this order, *)
(* and leaves game time paused if and only if both bytes sampled 1.        *)
(***************************************************************************)
C7_StartSequence ==
    (Ticked /\ Issued("start")) =>
        /\ cmds = <<"start", "pause_game_time",
                    IF SampledLoading THEN "pause_game_time" ELSE "resume_game_time">>
        /\ game_time_paused <=> SampledLoading

C7_Witness ==
    /\ Ticked /\ Issued("start")
    /\ reads[1].load = Ok(1) /\ reads[1].splash = Ok(0)
    /\ ~game_time_paused

(***************************************************************************)
(* C8: once the watchers of a session have been refreshed, is_loading is   *)
(* Some(true) or Some(false), and every is_loading call of a tick returned *)
(* one of the two.                                                         *)
(***************************************************************************)
C8_LoadingDefined ==
    Ticked =>
        /\ is_loading(watchers) \in {Some(TRUE), Some(FALSE)}
        /\ \A i \in 1..Len(loading_evals) : loading_evals[i] \in {Some(TRUE), Some(FALSE)}
        /\ (SeenActive \/ Issued("start")) => Len(loading_evals) = 1

C8_Witness ==
    /\ Ticked /\ reads[1].load = Err /\ reads[1].splash = Err
    /\ watchers.load_byte[1].old = 0
    /\ loading_evals = <<Some(TRUE)>>

(***************************************************************************)
(* C9: a tick issues at most one command among start, split and reset.     *)
(***************************************************************************)
C9_OneTimerCommand ==
    Count(cmds, "start") + Count(cmds, "split") + Count(cmds, "reset") <= 1

C9_Witness ==
    /\ Ticked /\ settings.individual_level
    /\ start(watchers, settings) /\ split(watchers, settings)
    /\ cmds = <<"pause_game_time", "split">>
    /\ timer_state = "Ended"

(***************************************************************************)
(* C10 as stated: a tick issues at most one load-state command, the tick   *)
(* that starts the run included.                                           *)
(***************************************************************************)
C10_AtMostOneLoadCommand == Len(LoadCmds) <= 1

(***************************************************************************)
(* C10 amended: a tick that does not start the run issues at most one      *)
(* load-state command; the tick that starts the run issues exactly two,    *)
(* the pause_game_time that follows start and the command of is_loading.   *)
(***************************************************************************)
C10_LoadCommandCount ==
    /\ ~Issued("start") => Len(LoadCmds) <= 1
    /\ Issued("start") => Len(LoadCmds) = 2 /\ LoadCmds[1] = "pause_game_time"

C10_Witness ==
    /\ Ticked /\ Issued("start")
    /\ LoadCmds = <<"pause_game_time", "resume_game_time">>

(***************************************************************************)
(* C12: reset() is false and game_time() is None on every tick, and no     *)
(* tick issues reset or set_game_time.                                     *)
(***************************************************************************)
C12_NoResetNoGameTime ==
    /\ ~Issued("reset")
    /\ ~Issued("set_game_time")
    /\ Ticked =>
          /\ ~reset(watchers, settings)
          /\ game_time(watchers, settings, addresses[1]) = None

C12_Witness ==
    /\ Ticked /\ seen_state = "Running" /\ settings.individual_level
    /\ watchers.start_byte[1] = Pair(1, 0)
    /\ cmds = <<"pause_game_time", "split">>

(***************************************************************************)
(* C17: a tick that finds the timer neither Running nor Paused and does    *)
(* not start the run issues no command and leaves the timer's state as it  *)
(* found it.                                                               *)
(***************************************************************************)
C17_IdleTickIssuesNothing ==
    (Ticked /\ seen_state \notin {"Running", "Paused"} /\ ~Issued("start")) =>
        /\ cmds = <<>>
        /\ loading_evals = <<>>
        /\ timer_state = seen_state

C17_Witness ==
    /\ Ticked /\ seen_state = "Ended"
    /\ split(watchers, settings)
    /\ is_loading(watchers) = Some(TRUE)
    /\ cmds = <<>>
    /\ timer_state = "Ended"

(***************************************************************************)
(* C18 as stated: a tick whose seven reads all fail issues neither start   *)
(* nor split, in both modes and whatever was sampled before.               *)
(***************************************************************************)
C18_FailedTickIssuesNothing ==
    (Ticked /\ reads[1] = AllErr) => ~Issued("start") /\ ~Issued("split")

(***************************************************************************)
(* C19 as stated, for a failure of one tick: in full-game mode with the    *)
(* timer Running, when the level was sampled "L1", its next read failed    *)
(* and the read after that returns "L1" again, the other reads staying as  *)
(* they were, neither the failing tick nor the recovering tick issues a    *)
(* split.                                                                  *)
(***************************************************************************)
C19_TransientLevelFailure ==
    [][(/\ Ticked /\ pc' = "loop"
        /\ ~settings.individual_level /\ ~settings'.individual_level
        /\ seen_state = "Running" /\ seen_state' = "Running"
        /\ watchers.level[1].old = L1
        /\ reads[1].level = Err
        /\ reads'[1] = [reads[1] EXCEPT !.level = Ok(L1)])
       => (~Issued("split") /\ Count(cmds', "split") = 0)]_vars

(***************************************************************************)
(* C13 as stated: a tick issues one set_tick_rate (60 when slow_pc_mode    *)
(* became on, 120 when it became off) if the slow_pc_mode it reads differs *)
(* from the one the previous tick read, and none if it is the same.        *)
(***************************************************************************)
C13_OneRateCommandPerToggle ==
    [][(pc = "loop" /\ pc' = "loop") =>
        rate_cmds' = IF settings'.slow_pc_mode # settings.slow_pc_mode
                     THEN <<IF settings'.slow_pc_mode THEN 60 ELSE 120>>
                     ELSE <<>>]_vars

(***************************************************************************)
(* C14 as stated: after every tick of every session the tick rate in       *)
(* effect is 60 when slow_pc_mode is on and 120 when it is off.            *)
(***************************************************************************)
C14_RateFollowsSetting ==
    Ticked => tick_rate = (IF settings.slow_pc_mode THEN 60 ELSE 120)

(***************************************************************************)
(* C15: the Memory struct holds the module base plus the seven offsets of  *)
(* the remaster when the image size is 0x1154000 and plus the seven        *)
(* offsets of the original for every other size, under either name.        *)
(***************************************************************************)
C15_AddressTable ==
    is_some(addresses) =>
        LET a == addresses[1]
            b == main_module_base[1]
            offsets == <<a.start - b, a.load - b, a.splash - b, a.level - b,
                         a.bullet - b, a.objective - b, a.mc - b>>
        IN /\ DOMAIN a = {"start", "load", "splash", "level", "bullet", "objective", "mc"}
           /\ offsets = IF main_module_size[1] = 18169856
                        THEN <<7969399, 7819235, 7652976, 8191101, 7789847, 8189288, 7969379>>
                        ELSE <<6856674, 6814776, 6634304, 6840113, 6666519, 6647612, 6856658>>

C15_Witness ==
    /\ is_some(addresses)
    /\ process_name = Some("SEV2_Remastered.exe")
    /\ main_module_size = Some(18173952)
    /\ addresses[1].mc = main_module_base[1] + 6856658

(***************************************************************************)
(* C16: while no process is attached nothing of a session exists; while    *)
(* the base and the size are being read there is no Memory struct, the     *)
(* watchers are empty with the slow_pc_mode mirror false, and nothing has  *)
(* been read or commanded; the loop runs on the Memory struct resolved     *)
(* from this session's base and size; the process can exit at every point  *)
(* of a session and attach is attempted again; and a step taken outside    *)
(* the loop leaves the timer and the tick rate alone.                      *)
(***************************************************************************)
C16_NoTickOutput ==
    /\ cmds = <<>> /\ rate_cmds = <<>> /\ loading_evals = <<>>
    /\ reads = NoReads /\ seen_state = "none"

C16_State ==
    /\ pc = "attach" =>
          /\ process_name = None /\ main_module_base = None /\ main_module_size = None
          /\ addresses = None /\ watchers = None
          /\ C16_NoTickOutput
          /\ ENABLED Attach(BothNames)
    /\ pc \in {"init_base", "init_size"} =>
          /\ is_some(process_name) /\ addresses = None
          /\ watchers = WatchersDefault
          /\ C16_NoTickOutput
    /\ pc = "loop" =>
          /\ is_some(main_module_base) /\ is_some(main_module_size)
          /\ addresses = Some(Memory_init(main_module_base[1], main_module_size[1]))
          /\ ~Ticked => (watchers = WatchersDefault /\ C16_NoTickOutput)
    /\ pc # "attach" => ENABLED ProcessExit

C16_Step ==
    (pc # "loop" \/ pc' # "loop") =>
        /\ timer_state' = timer_state
        /\ game_time_paused' = game_time_paused
        /\ tick_rate' = tick_rate
        /\ C16_NoTickOutput'
        /\ pc' = "attach" \/ pc # "loop"

C16_SessionScope == [](C16_State) /\ [][C16_Step]_vars

C16_Witness ==
    /\ pc = "loop" /\ ~Ticked
    /\ tick_rate = 60 /\ timer_state = "Running"
    /\ watchers = WatchersDefault
    /\ settings.slow_pc_mode
    /\ process_name = Some("SEV2_Remastered.exe")
    /\ main_module_size = Some(13631488)

====
